---- MODULE Spec2Model ----
(***************************************************************************)
(* Model of the client-side glue of lazorkit-passkey-demo:                 *)
(*   - the session tracker useSessionStatus, in its two variants           *)
(*       "full"   : the hook that stores a JSON record {pubkey,lastActive} *)
(*       "simple" : src/hooks/useSessionStatus.ts, which stores Date.now() *)
(*     together with WalletConnect.handleDisconnect, its only caller of    *)
(*     clearSession, and useCrossTabSync, which reacts to storage events;  *)
(*   - the input validators and sanitizeError of lib/validation.ts, inside *)
(*     the pages and called on their own;                                  *)
(*   - useTransfer.transfer and TransferForm.handleTransfer;               *)
(*   - the balance fetchers (useBalance in two variants, WalletBalance).   *)
(* The wallet SDK, the RPC endpoint and localStorage are the environment.  *)
(***************************************************************************)
EXTENDS Integers, Sequences, FiniteSets, Bags, TLC

VARIABLES
    \* ---- wallet SDK (useWallet): observable fields
    isConnected,        \* BOOLEAN
    smartWalletPubkey,  \* a wallet address, or NoPubkey (null)
    nodeEnv,            \* process.env.NODE_ENV
    \* ---- localStorage and the clock
    storage,            \* value under SESSION_KEY (a string), or Absent
    now,                \* Date.now(), in ms since the page was first opened
    \* ---- useSessionStatus
    variant,            \* which of the two hooks the page uses
    status,             \* full variant: useState<SessionStatus>
    lastActive,         \* full variant: useState<Date | null>
    isReturningUser,    \* simple variant: useState(false)
    timer,              \* the effect's pending setTimeout and its closure
    \* ---- WalletConnect
    hdPc,               \* handleDisconnect: "idle" | "awaiting"
    wcError,            \* WalletConnect's error state
    \* ---- the transfer page: useTransfer, or the TransferForm component
    page,               \* "hook" | "form": which of the two the page uses
    tIsLoading,         \* useTransfer: isLoading
    tError,             \* useTransfer: error
    tSignature,         \* useTransfer: signature
    tPending,           \* useTransfer: signAndSendTransaction calls in flight
    fRecipient,         \* TransferForm: recipient
    fAmount,            \* TransferForm: amount
    fToken,             \* TransferForm: token
    fLoading,           \* TransferForm: loading
    fResult,            \* TransferForm: result
    fPending,           \* TransferForm: signAndSendTransaction calls in flight
    sdkCalls,           \* number of signAndSendTransaction calls made so far
    \* ---- balances: useBalance (two variants) or the WalletBalance component
    bVariant,           \* "settled" | "sequential" | "component"
    balances,           \* balances: {sol, usdc}
    bIsLoading,         \* isLoading (loading in the component)
    bError,             \* error (the component has none)
    isMounted,          \* isMountedRef.current / the component is mounted
    interval,           \* the timer handle the effect's cleanup holds
    timers,             \* the page's active interval timers: a bag of the
                        \* wallets their fetchBalances closures hold
    elapsed,            \* ms since the timer was set or last fired
    fetches,            \* fetchBalances calls in flight (a bag)
    \* ---- lib/validation.ts called on its own
    argAddress,         \* the string given to validateAddress
    argAmount,          \* the string given to validateAmount
    argTokenType,       \* the tokenType given to validateAmount
    argErr,             \* the value given to sanitizeError
    returned,           \* the function called last and what it returned
    \* ---- history (not program state)
    signedOut,          \* a sign-out completed and no connect followed
    last                \* the operation performed by the last step

walletVars  == <<isConnected, smartWalletPubkey, nodeEnv>>
sessionVars == <<storage, now, variant, status, lastActive, isReturningUser,
                 timer, hdPc, wcError, signedOut>>
balanceVars == <<bVariant, balances, bIsLoading, bError, isMounted, interval, timers,
                 elapsed,
                 fetches>>
validatorVars == <<argAddress, argAmount, argTokenType, argErr, returned>>
transferVars == <<page, tIsLoading, tError, tSignature, tPending, fRecipient,
                  fAmount, fToken, fLoading, fResult, fPending, sdkCalls>>

\* ------------------------------------------------------------------ bounds
\* number of 1 ms clock steps, and of 24 h clock steps, a behaviour may take
MaxMs == 1
MaxDays == 1
\* number of signAndSendTransaction calls a behaviour may make, and of
\* useTransfer calls that may be awaiting the SDK at once
MaxCalls == 2
MaxPending == 2
\* fetchBalances calls that may be in flight at once
MaxFetches == 2

\* --------------------------------------------------------------- constants
SESSION_EXPIRY_MS == 24 * 60 * 60 * 1000
SESSION_EXPIRY_HOURS == 24
MS_PER_HOUR == 1000 * 60 * 60

NoPubkey == "null"
Pubkeys == {"A1", "A2"}
NoError == "null"

\* ------------------------------------------------------------ sanitizeError
\* A thrown value: isError is `err instanceof Error`; words are the keywords of
\* the table that err.message.toLowerCase() contains; text is err.message.
Thrown ==
    { [isError |-> FALSE, words |-> {}, text |-> "a string was thrown"],
      [isError |-> TRUE, words |-> {}, text |-> "Signing failed: 0x1771"],
      [isError |-> TRUE, words |-> {"insufficient"}, text |-> "Insufficient lamports"],
      [isError |-> TRUE, words |-> {"network"}, text |-> "Network request failed"],
      [isError |-> TRUE, words |-> {"user rejected"}, text |-> "User rejected the request"],
      [isError |-> TRUE, words |-> {"timeout"}, text |-> "Timeout exceeded"],
      [isError |-> TRUE, words |-> {"network", "timeout"}, text |-> "network timeout"] }

sanitizeError(err, env) ==
    IF ~err.isError THEN "Operation failed"
    ELSE IF "insufficient" \in err.words THEN "Insufficient balance"
    ELSE IF "network" \in err.words THEN "Network error. Try again."
    ELSE IF "user rejected" \in err.words THEN "Transaction cancelled"
    ELSE IF "timeout" \in err.words THEN "Request timed out"
    ELSE IF env = "production" THEN "Transaction failed"
    ELSE err.text

\* ================================================================ strings
\* A string is a sequence of one-character strings.
\* White space and line terminators, as trim() and parseFloat() skip them.
IsSpace(c) == c \in {" ", "\t", "\n", "\r"}

RECURSIVE TrimStart(_)
TrimStart(s) == IF s # <<>> /\ IsSpace(Head(s)) THEN TrimStart(Tail(s)) ELSE s

RECURSIVE TrimEnd(_)
TrimEnd(s) ==
    IF s # <<>> /\ IsSpace(s[Len(s)]) THEN TrimEnd(SubSeq(s, 1, Len(s) - 1)) ELSE s

\* String.prototype.trim()
trim(s) == TrimEnd(TrimStart(s))

\* String.prototype.toLowerCase(), for the letters of the basic alphabet
UpperCase == <<"A", "B", "C", "D", "E", "F", "G", "H", "I", "J", "K", "L", "M",
               "N", "O", "P", "Q", "R", "S", "T", "U", "V", "W", "X", "Y", "Z">>
LowerCase == <<"a", "b", "c", "d", "e", "f", "g", "h", "i", "j", "k", "l", "m",
               "n", "o", "p", "q", "r", "s", "t", "u", "v", "w", "x", "y", "z">>
toLowerCase(s) ==
    [i \in 1..Len(s) |->
        IF \E k \in 1..26 : UpperCase[k] = s[i]
        THEN LowerCase[CHOOSE k \in 1..26 : UpperCase[k] = s[i]]
        ELSE s[i]]

\* String.prototype.includes(sub)
includes(s, sub) ==
    \E i \in 0..(Len(s) - Len(sub)) : SubSeq(s, i + 1, i + Len(sub)) = sub

\* The keywords of sanitizeError's table, spelled out.
Spelling(word) ==
    CASE word = "insufficient" -> <<"i", "n", "s", "u", "f", "f", "i", "c", "i", "e", "n", "t">>
      [] word = "network" -> <<"n", "e", "t", "w", "o", "r", "k">>
      [] word = "user rejected" -> <<"u", "s", "e", "r", " ", "r", "e", "j", "e", "c", "t", "e", "d">>
      [] word = "timeout" -> <<"t", "i", "m", "e", "o", "u", "t">>

\* A caught value as sanitizeError reads it: the keywords that its message,
\* lower-cased, includes.
Caught(err) ==
    [isError |-> err.isError,
     words |-> {w \in {"insufficient", "network", "user rejected", "timeout"} :
                   includes(toLowerCase(err.message), Spelling(w))},
     text |-> err.text]

\* ------------------------------------------------- PublicKey (base58 decode)
\* The base58 alphabet; the value of a character is its position minus one.
B58 == <<"1", "2", "3", "4", "5", "6", "7", "8", "9", "A", "B", "C", "D", "E", "F",
        "G", "H", "J", "K", "L", "M", "N", "P", "Q", "R", "S", "T", "U", "V", "W",
        "X", "Y", "Z", "a", "b", "c", "d", "e", "f", "g", "h", "i", "j", "k", "m",
        "n", "o", "p", "q", "r", "s", "t", "u", "v", "w", "x", "y", "z">>

IsB58(c) == \E i \in 1..Len(B58) : B58[i] = c
B58Value(c) == (CHOOSE i \in 1..Len(B58) : B58[i] = c) - 1

\* bytes * 58 + carry, on a little-endian byte string without high zero bytes
RECURSIVE MulAdd(_, _)
MulAdd(bytes, carry) ==
    IF bytes = <<>>
    THEN IF carry = 0 THEN <<>> ELSE <<carry>>
    ELSE LET v == Head(bytes) * Len(B58) + carry IN
         <<v % 256>> \o MulAdd(Tail(bytes), v \div 256)

RECURSIVE B58Number(_, _)
B58Number(s, bytes) ==
    IF s = <<>> THEN bytes
    ELSE B58Number(Tail(s), MulAdd(bytes, B58Value(Head(s))))

RECURSIVE LeadingOnes(_)
LeadingOnes(s) ==
    IF s # <<>> /\ Head(s) = "1" THEN 1 + LeadingOnes(Tail(s)) ELSE 0

Reverse(s) == [i \in 1..Len(s) |-> s[Len(s) + 1 - i]]

\* bs58.decode: one zero byte per leading "1", then the big-endian bytes of the
\* number the remaining characters spell; it throws on a foreign character.
bs58decode(s) ==
    IF \E i \in 1..Len(s) : ~IsB58(s[i])
    THEN [ok |-> FALSE, bytes |-> <<>>]
    ELSE LET z == LeadingOnes(s)
             num == B58Number(SubSeq(s, z + 1, Len(s)), <<>>)
         IN [ok |-> TRUE, bytes |-> [i \in 1..z |-> 0] \o Reverse(num)]

\* Recipient strings the pages are given: empty, blank, the system program,
\* the USDC mint, the wrapped-SOL mint between spaces, and a 44-character
\* string with a character outside the alphabet.
AddressSamples ==
    { <<>>,
      <<" ", " ">>,
      <<"1", "1", "1", "1", "1", "1", "1", "1", "1", "1", "1", "1",
        "1", "1", "1", "1", "1", "1", "1", "1", "1", "1", "1", "1",
        "1", "1", "1", "1", "1", "1", "1", "1">>,
      <<"4", "z", "M", "M", "C", "9", "s", "r", "t", "5", "R", "i",
        "5", "X", "1", "4", "G", "A", "g", "X", "h", "a", "H", "i",
        "i", "3", "G", "n", "P", "A", "E", "E", "R", "Y", "P", "J",
        "g", "Z", "J", "D", "n", "c", "D", "U">>,
      <<" ", "S", "o", "1", "1", "1", "1", "1", "1", "1", "1", "1",
        "1", "1", "1", "1", "1", "1", "1", "1", "1", "1", "1", "1",
        "1", "1", "1", "1", "1", "1", "1", "1", "1", "1", "1", "1",
        "1", "1", "1", "1", "1", "1", "1", "2", " ">>,
      <<"4", "z", "M", "M", "C", "9", "s", "r", "t", "5", "R", "i",
        "5", "X", "1", "4", "G", "A", "g", "X", "h", "a", "H", "i",
        "i", "3", "G", "n", "P", "A", "E", "E", "R", "Y", "P", "J",
        "g", "Z", "J", "D", "n", "c", "D", "0">> }

\* The decodings of the sample strings as the pages pass them on (trimmed, or
\* trimmed and stripped of foreign characters), computed once.
DecodedSamples ==
    [s \in {trim(a) : a \in AddressSamples}
            \cup {SelectSeq(trim(a), IsB58) : a \in AddressSamples}
        |-> bs58decode(s)]

\* new PublicKey(value): throws unless the string decodes to exactly 32 bytes.
PublicKey(s) ==
    LET d == IF s \in DOMAIN DecodedSamples THEN DecodedSamples[s]
             ELSE bs58decode(s) IN
    IF d.ok /\ Len(d.bytes) = 32 THEN d ELSE [ok |-> FALSE, bytes |-> <<>>]

\* SystemProgram.programId, the key 11111111111111111111111111111111
SystemProgramId == [i \in 1..32 |-> 0]

\* ---------------------------------------------------------- validateAddress
Valid == [valid |-> TRUE, error |-> NoError]
Invalid(msg) == [valid |-> FALSE, error |-> msg]

\* (what the caller would see if the constructor's exception left the function)
validateAddressUncaught(address) ==
    IF trim(address) = <<>> THEN Invalid("Address required")
    ELSE LET trimmed == trim(address) IN
         IF Len(trimmed) < 32 \/ Len(trimmed) > 44
         THEN Invalid("Invalid address length")
         ELSE LET pubkey == PublicKey(trimmed) IN
              IF ~pubkey.ok THEN [valid |-> FALSE, error |-> NoError, threw |-> TRUE]
              ELSE IF pubkey.bytes = SystemProgramId
              THEN Invalid("Cannot send to system program")
              ELSE Valid

validateAddressMutant(address) ==
    IF trim(address) = <<>> THEN Invalid("Address required")
    ELSE LET trimmed == trim(address)
             pubkey == PublicKey(trimmed) IN
         IF ~pubkey.ok THEN Invalid("Invalid Solana address")
         ELSE IF Len(trimmed) < 32 \/ Len(trimmed) > 44
         THEN Invalid("Invalid address length")
         ELSE IF pubkey.bytes = SystemProgramId
         THEN Invalid("Cannot send to system program")
         ELSE Valid

validateAddress(address) ==
    IF trim(address) = <<>> THEN Invalid("Address required")
    ELSE LET trimmed == trim(address) IN
         IF Len(trimmed) < 32 \/ Len(trimmed) > 44
         THEN Invalid("Invalid address length")
         ELSE LET pubkey == PublicKey(trimmed) IN
              IF ~pubkey.ok THEN Invalid("Invalid Solana address")
              ELSE IF pubkey.bytes = SystemProgramId
              THEN Invalid("Cannot send to system program")
              ELSE Valid

\* ------------------------------------------------------------- JS numbers
\* A number is NaN or a signed decimal: whole part and fraction digits (no
\* trailing zero).  Exponent notation and Infinity are outside the model.
Number(neg, whole, frac) == [nan |-> FALSE, neg |-> neg, whole |-> whole, frac |-> frac]
NumNaN == [nan |-> TRUE, neg |-> FALSE, whole |-> 0, frac |-> <<>>]
Zero == Number(FALSE, 0, <<>>)

Digits == <<"0", "1", "2", "3", "4", "5", "6", "7", "8", "9">>
IsDigit(c) == \E i \in 1..10 : Digits[i] = c
DigitValue(c) == (CHOOSE i \in 1..10 : Digits[i] = c) - 1

RECURSIVE DigitRun(_)
DigitRun(s) == IF s # <<>> /\ IsDigit(Head(s)) THEN 1 + DigitRun(Tail(s)) ELSE 0

RECURSIVE DigitsValue(_, _)
DigitsValue(s, acc) ==
    IF s = <<>> THEN acc ELSE DigitsValue(Tail(s), acc * 10 + DigitValue(Head(s)))

RECURSIVE StripZeros(_)
StripZeros(ds) ==
    IF ds # <<>> /\ ds[Len(ds)] = 0 THEN StripZeros(SubSeq(ds, 1, Len(ds) - 1)) ELSE ds

\* parseFloat(string): leading white space, an optional sign, then the longest
\* prefix of the form digits [. digits]; NaN when that prefix has no digit.
\* Whatever follows the prefix is ignored.
parseFloat(str) ==
    LET s0 == TrimStart(str)
        signed == s0 # <<>> /\ Head(s0) \in {"-", "+"}
        neg == s0 # <<>> /\ Head(s0) = "-"
        s1 == IF signed THEN Tail(s0) ELSE s0
        nInt == DigitRun(s1)
        s2 == SubSeq(s1, nInt + 1, Len(s1))
        dot == s2 # <<>> /\ Head(s2) = "."
        s3 == IF dot THEN Tail(s2) ELSE <<>>
        nFrac == DigitRun(s3)
        fracDs == [i \in 1..nFrac |-> DigitValue(s3[i])]
    IN IF nInt + nFrac = 0 THEN NumNaN
       ELSE Number(neg, DigitsValue(SubSeq(s1, 1, nInt), 0), StripZeros(fracDs))

RECURSIVE DecimalDigits(_)
DecimalDigits(n) ==
    IF n < 10 THEN <<Digits[n + 1]>>
    ELSE DecimalDigits(n \div 10) \o <<Digits[(n % 10) + 1]>>

\* Number.prototype.toString() for NaN and for plain decimals
toString(x) ==
    IF x.nan THEN <<"N", "a", "N">>
    ELSE (IF x.neg /\ (x.whole # 0 \/ x.frac # <<>>) THEN <<"-">> ELSE <<>>)
         \o DecimalDigits(x.whole)
         \o (IF x.frac = <<>> THEN <<>>
             ELSE <<".">> \o [i \in 1..Len(x.frac) |-> Digits[x.frac[i] + 1]])

IsZero(x) == x.whole = 0 /\ x.frac = <<>>
\* parsed <= 0
NonPositive(x) == x.neg \/ IsZero(x)
\* parsed > max, for a non-negative parsed and an integer max
ExceedsMutant(x, max) == x.whole >= max
Exceeds(x, max) == x.whole > max \/ (x.whole = max /\ x.frac # <<>>)

\* Math.floor(x * 10^k) for x >= 0, as giga * 10^9 + rest with rest < 10^9
RECURSIVE Pow10(_)
Pow10(k) == IF k = 0 THEN 1 ELSE 10 * Pow10(k - 1)

FirstDigits(frac, k) ==
    DigitsValue([i \in 1..k |-> Digits[(IF i <= Len(frac) THEN frac[i] ELSE 0) + 1]], 0)

ScaledFloor(x, k) ==
    LET up == Pow10(9 - k)
    IN [giga |-> x.whole \div up,
        rest |-> (x.whole % up) * Pow10(k) + FirstDigits(x.frac, k)]

\* Number.isSafeInteger(n): |n| <= 2^53 - 1 = 9007199 * 10^9 + 254740991
isSafeInteger(n) ==
    n.giga < 9007199 \/ (n.giga = 9007199 /\ n.rest <= 254740991)

\* ----------------------------------------------------------- validateAmount
MAX_SOL_AMOUNT == 1000000
MAX_USDC_AMOUNT == 10000000

\* the exponent of the multiplier: 1e9 for SOL, 1e6 for USDC
Decimals(tokenType) == IF tokenType = "SOL" THEN 9 ELSE 6

\* `Max ${max.toLocaleString()} ${tokenType}`
MaxMessage(tokenType) ==
    IF tokenType = "SOL" THEN "Max 1,000,000 SOL" ELSE "Max 10,000,000 USDC"

validateAmount(amount, tokenType) ==
    LET parsed == parseFloat(amount)
        max == IF tokenType = "SOL" THEN MAX_SOL_AMOUNT ELSE MAX_USDC_AMOUNT
    IN IF parsed.nan \/ NonPositive(parsed) THEN Invalid("Enter a valid amount")
       ELSE IF Exceeds(parsed, max) THEN Invalid(MaxMessage(tokenType))
       ELSE IF ~isSafeInteger(ScaledFloor(parsed, Decimals(tokenType)))
       THEN Invalid("Amount too large")
       ELSE Valid

\* ---------------------------------------------------- localStorage strings
\* A stored string is described by what the two parsers make of it:
\*   absent  : getItem returns null
\*   empty   : ""                       (falsy)
\*   text    : "abc"                    (JSON.parse throws, parseInt is NaN)
\*   jsonnull: "null"                   (JSON.parse gives null)
\*   obj     : "{}"                     (an object with no lastActive)
\*   dec     : the decimal digits of ms (Date.now().toString())
\*   session : JSON.stringify({pubkey: pk, lastActive: ISO string of ms})
Str(k, ms, pk) == [k |-> k, ms |-> ms, pk |-> pk]
Absent == Str("absent", 0, NoPubkey)
Garbage == { Str("empty", 0, NoPubkey), Str("text", 0, NoPubkey),
             Str("jsonnull", 0, NoPubkey), Str("obj", 0, NoPubkey) }

\* Date.now().toString()
DecString(t) == Str("dec", t, NoPubkey)
\* JSON.stringify({ pubkey: pk.toString(), lastActive: new Date(t).toISOString() })
SessionDataMutant(pk, t) == Str("session", 0, pk)
SessionData(pk, t) == Str("session", t, pk)

\* `if (stored)`: null and "" are falsy
Truthy(s) == s.k \notin {"absent", "empty"}

\* Numbers that may be NaN, and Dates that may be null or Invalid Date.
Num(n) == [nan |-> FALSE, n |-> n]
NaN == [nan |-> TRUE, n |-> 0]
Date(t) == [k |-> "date", ms |-> t]
InvalidDate == [k |-> "invalid", ms |-> 0]
NullDate == [k |-> "null", ms |-> 0]

\* parseInt(stored, 10): the leading decimal digits, NaN when there are none
parseInt(s) == IF s.k = "dec" THEN Num(s.ms) ELSE NaN

\* JSON.parse(stored) followed by `new Date(session.lastActive)`:
\*   "threw"   JSON.parse threw, or session is null and the property read threw
\*   otherwise the Date built from session.lastActive (undefined gives Invalid Date)
ParsedLastActive(s) ==
    CASE s.k \in {"text", "empty", "absent"} -> [threw |-> TRUE, date |-> NullDate]
      [] s.k = "jsonnull" -> [threw |-> TRUE, date |-> NullDate]
      [] s.k \in {"obj", "dec"} -> [threw |-> FALSE, date |-> InvalidDate]
      [] s.k = "session" -> [threw |-> FALSE, date |-> Date(s.ms)]

\* Date.prototype.getTime()
getTime(d) == IF d.k = "date" THEN Num(d.ms) ELSE NaN

\* ------------------------------------------------- useSessionStatus: checks
\* (Date.now() - lastActiveDate.getTime()) / (1000*60*60) > SESSION_EXPIRY_HOURS;
\* a comparison with NaN is false.  The quotient exceeds 24 exactly when the
\* difference exceeds 24 * 3600000.
HoursExceededMutant(t, ms) == ~ms.nan /\ ms.n - t > SESSION_EXPIRY_HOURS * MS_PER_HOUR
HoursExceeded(t, ms) == ~ms.nan /\ t - ms.n > SESSION_EXPIRY_HOURS * MS_PER_HOUR

\* Date.now() - lastActive > SESSION_EXPIRY_MS
ExpiredMsReversed(t, ms) == ~ms.nan /\ ms.n - t > SESSION_EXPIRY_MS
ExpiredMsMutant(t, ms) == ~ms.nan /\ t - ms.n >= SESSION_EXPIRY_MS
ExpiredMs(t, ms) == ~ms.nan /\ t - ms.n > SESSION_EXPIRY_MS

\* The timer callback of the full variant, as a function of what it reads:
\* the closure's connection flag and address, the stored string, the clock and
\* the hook's state.  It yields the new state and storage.
FullCheck(conn, pk, stored, t, st, la) ==
    IF conn /\ pk # NoPubkey
    THEN [status |-> "connected", lastActive |-> Date(t),
          storage |-> SessionData(pk, t)]
    ELSE IF Truthy(stored)
    THEN LET p == ParsedLastActive(stored) IN
         IF p.threw
         THEN [status |-> "disconnected", lastActive |-> la, storage |-> Absent]
         ELSE IF HoursExceeded(t, getTime(p.date))
         THEN [status |-> "expired", lastActive |-> la, storage |-> Absent]
         ELSE [status |-> "disconnected", lastActive |-> p.date, storage |-> stored]
    ELSE [status |-> "disconnected", lastActive |-> la, storage |-> stored]

\* The timer callback of the simple variant.
SimpleCheck(conn, pk, stored, t, ret) ==
    IF conn /\ pk # NoPubkey
    THEN [isReturningUser |-> FALSE, storage |-> DecString(t)]
    ELSE IF Truthy(stored)
    THEN IF ExpiredMs(t, parseInt(stored))
         THEN [isReturningUser |-> FALSE, storage |-> Absent]
         ELSE [isReturningUser |-> TRUE, storage |-> stored]
    ELSE [isReturningUser |-> ret, storage |-> stored]

\* The value the hook returns as isReturningUser.
ReturningUser ==
    IF variant = "full"
    THEN status = "disconnected" /\ lastActive # NullDate
    ELSE isReturningUser

\* The effect of [isConnected, smartWalletPubkey]: the cleanup clears the old
\* timeout, the body sets a new one whose closure holds the rendered values.
\* (History: observer tells that the render followed a storage event, not an
\* action in this tab.)  The record is the handle the cleanup holds; others
\* are the closures of earlier timeouts that are still pending, and mounted
\* tells whether the hook's component is.
EffectTimer(conn, pk) ==
    [pending |-> TRUE, isConnected |-> conn, pubkey |-> pk, observer |-> FALSE,
     others |-> {}, mounted |-> TRUE]
NoTimer == [EffectTimer(FALSE, NoPubkey) EXCEPT !.pending = FALSE]

\* what a timeout's callback holds
Closure(t) ==
    [isConnected |-> t.isConnected, pubkey |-> t.pubkey, observer |-> t.observer]

\* the timeouts that will still fire
PendingChecks(t) == (IF t.pending THEN {Closure(t)} ELSE {}) \cup t.others

\* The effect's cleanup, `() => clearTimeout(timer)`, for the handle t: the
\* timeouts that are pending afterwards.
ClearTimeoutMutant(t) == PendingChecks(t)
ClearTimeout(t) == t.others

\* What the session tracker's steps leave alone.
notSession == <<transferVars, balanceVars, validatorVars>>

\* History record of a step: the operation, and for a session check what it
\* read (the closure's connection state, the stored string, lastActive).

Op(name) == [op |-> name, connected |-> FALSE, active |-> FALSE,
             stored |-> Absent, la |-> NullDate]


\* ---------------------------------------------------------- balances: idle
\* DEFAULT_BALANCES / useState({ sol: 0, usdc: 0 })
DEFAULT_BALANCES == [sol |-> Zero, usdc |-> Zero]
NoInterval == [active |-> FALSE, pk |-> NoPubkey]

\* The state of a balance display that has not been used.
BalanceIdle ==
    /\ bVariant = "settled"
    /\ balances = DEFAULT_BALANCES
    /\ bIsLoading = FALSE /\ bError = NoError
    /\ isMounted = TRUE
    /\ interval = NoInterval
    /\ timers = EmptyBag
    /\ elapsed = 0
    /\ fetches = EmptyBag

\* ---------------------------------------------------- transfer page: idle
NoResult == [k |-> "null", success |-> FALSE, signature |-> NoError, error |-> NoError]
Success(sig) == [k |-> "result", success |-> TRUE, signature |-> sig, error |-> NoError]
Failure(msg) == [k |-> "result", success |-> FALSE, signature |-> NoError, error |-> msg]

\* The state of the transfer page before anything was entered.
TransferIdle ==
    /\ page = "hook"
    /\ tIsLoading = FALSE /\ tError = NoError /\ tSignature = NoError
    /\ tPending = 0
    /\ fRecipient = <<>> /\ fAmount = <<>> /\ fToken = "SOL"
    /\ fLoading = FALSE /\ fResult = NoResult /\ fPending = 0
    /\ sdkCalls = 0

\* ----------------------------------------------------- validators: idle
NotCalled == [fn |-> "none", result |-> [valid |-> FALSE, error |-> NoError]]

\* No validator has been called on its own.
ValidatorIdle ==
    /\ argAddress = <<>> /\ argAmount = <<>> /\ argTokenType = "SOL"
    /\ argErr = [isError |-> FALSE, text |-> "", message |-> <<>>]
    /\ returned = NotCalled

\* ------------------------------------------------------------ session: Init
InitSession ==
    /\ isConnected = FALSE
    /\ smartWalletPubkey = NoPubkey
    /\ nodeEnv = "production"
    /\ storage \in {Absent} \cup Garbage \cup {DecString(0), SessionData("A1", 0)}
    /\ now = 0
    /\ variant \in {"full", "simple"}
    /\ status = "loading"
    /\ lastActive = NullDate
    /\ isReturningUser = FALSE
    /\ timer = EffectTimer(FALSE, NoPubkey)
    /\ hdPc = "idle"
    /\ wcError = NoError
    /\ signedOut = FALSE
    /\ last = Op("mount")
    /\ TransferIdle
    /\ BalanceIdle
    /\ ValidatorIdle

\* --------------------------------------------------------- session: actions
\* The SDK changes its observable fields (connect, disconnect, account
\* change, restore); the hook re-renders and its effect runs again.
WalletUpdate(conn, pk) ==
    /\ timer.mounted
    /\ <<conn, pk>> # <<isConnected, smartWalletPubkey>>
    /\ isConnected' = conn
    /\ smartWalletPubkey' = pk
    /\ timer' = [EffectTimer(conn, pk) EXCEPT !.others = ClearTimeout(timer)]
    /\ signedOut' = (signedOut /\ ~conn)
    /\ last' = Op("wallet")
    /\ UNCHANGED <<nodeEnv, storage, now, variant, status, lastActive,
                   isReturningUser, hdPc, wcError>>
    /\ UNCHANGED notSession

\* The 100 ms timeout fires.
SessionCheck ==
    \E c \in PendingChecks(timer) :
    /\ timer' = IF timer.pending /\ c = Closure(timer)
                THEN [timer EXCEPT !.pending = FALSE]
                ELSE [timer EXCEPT !.others = @ \ {c}]
    /\ IF variant = "full"
       THEN LET r == FullCheck(c.isConnected, c.pubkey, storage, now,
                               status, lastActive) IN
            /\ status' = r.status
            /\ lastActive' = r.lastActive
            /\ storage' = r.storage
            /\ UNCHANGED isReturningUser
       ELSE LET r == SimpleCheck(c.isConnected, c.pubkey, storage, now,
                                 isReturningUser) IN
            /\ isReturningUser' = r.isReturningUser
            /\ storage' = r.storage
            /\ UNCHANGED <<status, lastActive>>
    /\ last' = [op |-> "check",
                connected |-> c.isConnected,
                pubkey |-> c.pubkey,
                active |-> (c.isConnected /\ c.pubkey # NoPubkey),
                stored |-> storage,
                la |-> lastActive,
                observer |-> c.observer]
    /\ UNCHANGED <<walletVars, now, variant, hdPc, wcError, signedOut>>
    /\ UNCHANGED notSession

\* clearSession(): removeItem, and in the full variant setLastActive(null).
ClearedLastActive(la) == NullDate

ClearedStorageMutant(s) == s
ClearedStorage(s) == Absent

clearSession ==
    /\ storage' = ClearedStorage(storage)
    /\ lastActive' = IF variant = "full" THEN ClearedLastActive(lastActive)
                     ELSE lastActive
    /\ UNCHANGED <<status, isReturningUser>>
    /\ UNCHANGED notSession

\* A consumer of the hook calls clearSession directly.
ClearSessionCall ==
    /\ timer.mounted
    /\ clearSession
    /\ last' = Op("clear")
    /\ UNCHANGED <<walletVars, now, variant, timer, hdPc, wcError, signedOut>>
    /\ UNCHANGED notSession

\* WalletConnect.handleDisconnect: the Disconnect button is rendered only while
\* isConnected && smartWalletPubkey; the handler awaits disconnect().
HandleDisconnectStart ==
    /\ timer.mounted
    /\ hdPc = "idle"
    /\ isConnected /\ smartWalletPubkey # NoPubkey
    /\ hdPc' = "awaiting"
    /\ last' = Op("hdStart")
    /\ UNCHANGED <<walletVars, storage, now, variant, status, lastActive,
                   isReturningUser, timer, wcError, signedOut>>
    /\ UNCHANGED notSession

\* disconnect() resolved (the SDK reports no connection by then):
\* clearSession() runs and the handler returns.
HandleDisconnectResolved ==
    /\ hdPc = "awaiting"
    /\ ~isConnected
    /\ clearSession
    /\ hdPc' = "idle"
    /\ signedOut' = TRUE
    /\ last' = [Op("hdResolved") EXCEPT !.stored = storage]
    /\ UNCHANGED <<walletVars, now, variant, timer, wcError>>
    /\ UNCHANGED notSession

\* disconnect() rejected: the catch block sets the error, clearSession() is
\* skipped and the handler returns.
HandleDisconnectRejected(err) ==
    /\ hdPc = "awaiting"
    /\ wcError' = sanitizeError(err, nodeEnv)
    /\ hdPc' = "idle"
    /\ last' = [Op("hdRejected") EXCEPT !.stored = storage]
    /\ UNCHANGED <<walletVars, storage, now, variant, status, lastActive,
                   isReturningUser, timer, signedOut>>
    /\ UNCHANGED notSession

\* The component that uses the hook unmounts: the effect's cleanup runs.
SessionUnmount ==
    /\ timer.mounted
    /\ hdPc = "idle"
    /\ timer' = [timer EXCEPT !.pending = FALSE, !.others = ClearTimeout(timer),
                              !.mounted = FALSE]
    /\ last' = Op("unmount")
    /\ UNCHANGED <<walletVars, storage, now, variant, status, lastActive,
                   isReturningUser, hdPc, wcError, signedOut>>
    /\ UNCHANGED notSession

\* Time passes.
Tick(d) ==
    /\ \/ d = 1 /\ now % SESSION_EXPIRY_MS < MaxMs
       \/ d = SESSION_EXPIRY_MS /\ now \div SESSION_EXPIRY_MS < MaxDays
    /\ now' = now + d
    /\ last' = Op("tick")
    /\ UNCHANGED <<walletVars, storage, variant, status, lastActive,
                   isReturningUser, timer, hdPc, wcError, signedOut>>
    /\ UNCHANGED notSession

\* Another tab of the same origin writes or removes the key.
OtherTabWrites(v) ==
    /\ v # storage
    /\ storage' = v
    /\ signedOut' = FALSE
    /\ last' = Op("otherTab")
    /\ UNCHANGED <<walletVars, now, variant, status, lastActive,
                   isReturningUser, timer, hdPc, wcError>>
    /\ UNCHANGED notSession

\* useCrossTabSync: the storage event of another tab's change of the key is
\* delivered and the handler calls refetch(); the SDK re-derives the wallet
\* state, and when that differs from the rendered one the effect runs again.
StorageEvent(conn, pk) ==
    /\ timer.mounted
    /\ last.op = "otherTab"
    /\ isConnected' = conn
    /\ smartWalletPubkey' = pk
    /\ timer' = IF <<conn, pk>> # <<isConnected, smartWalletPubkey>>
                THEN [EffectTimer(conn, pk) EXCEPT !.observer = TRUE,
                                                  !.others = ClearTimeout(timer)]
                ELSE timer
    /\ signedOut' = (signedOut /\ ~conn)
    /\ last' = Op("storageEvent")
    /\ UNCHANGED <<nodeEnv, storage, now, variant, status, lastActive,
                   isReturningUser, hdPc, wcError>>
    /\ UNCHANGED notSession

OtherTabValues ==
    {Absent} \cup Garbage \cup {DecString(now), SessionData("A2", now)}

RejectErrors == { e \in Thrown : e.words \subseteq {"network"} }

NextSession ==
    \/ \E c \in BOOLEAN, p \in Pubkeys \cup {NoPubkey} : WalletUpdate(c, p)
    \/ SessionCheck
    \/ ClearSessionCall
    \/ HandleDisconnectStart
    \/ HandleDisconnectResolved
    \/ \E e \in RejectErrors : HandleDisconnectRejected(e)
    \/ \E d \in {1, SESSION_EXPIRY_MS} : Tick(d)
    \/ \E v \in OtherTabValues : OtherTabWrites(v)
    \/ \E c \in BOOLEAN, p \in Pubkeys \cup {NoPubkey} : StorageEvent(c, p)
    \/ SessionUnmount

vars == <<walletVars, sessionVars, transferVars, balanceVars, validatorVars, last>>

SpecSession == InitSession /\ [][NextSession]_vars

\* The same page when the key only ever holds what the hook in use writes:
\* no corrupted value, and other tabs run the same hook.
OwnRecord(pk, t) == IF variant = "full" THEN SessionData(pk, t) ELSE DecString(t)

InitSessionWF ==
    /\ InitSession
    /\ storage \in {Absent, OwnRecord("A1", 0)}

NextSessionWF ==
    \/ \E c \in BOOLEAN, p \in Pubkeys \cup {NoPubkey} : WalletUpdate(c, p)
    \/ SessionCheck
    \/ ClearSessionCall
    \/ HandleDisconnectStart
    \/ HandleDisconnectResolved
    \/ \E e \in RejectErrors : HandleDisconnectRejected(e)
    \/ \E d \in {1, SESSION_EXPIRY_MS} : Tick(d)
    \/ \E v \in {Absent, OwnRecord("A2", now)} : OtherTabWrites(v)

SpecSessionWF == InitSessionWF /\ [][NextSessionWF]_vars

\* ============================================================== transfers
\* useTransfer.transfer, from its first line to the last check before
\* setIsLoading(true): the result it returns early, or Valid to go on.
TransferPreflightMutant(conn, pk, recipient, amount, token) ==
    IF ~conn \/ pk = NoPubkey THEN Invalid("Wallet not connected")
    ELSE IF ~validateAddress(recipient).valid THEN validateAddress(recipient)
    ELSE Valid
TransferPreflight(conn, pk, recipient, amount, token) ==
    IF ~conn \/ pk = NoPubkey THEN Invalid("Wallet not connected")
    ELSE IF ~validateAddress(recipient).valid THEN validateAddress(recipient)
    ELSE IF ~validateAmount(toString(amount), token).valid
    THEN validateAmount(toString(amount), token)
    ELSE Valid

\* TransferForm.handleTransfer up to setLoading(true): "silent" is the bare
\* return taken when there is no wallet address.
FormPreflight(pk, recipient, amount, token) ==
    IF pk = NoPubkey THEN [silent |-> TRUE, check |-> Valid]
    ELSE IF ~validateAddress(recipient).valid
    THEN [silent |-> FALSE, check |-> validateAddress(recipient)]
    ELSE [silent |-> FALSE, check |-> validateAmount(amount, token)]

\* The try block up to the SDK call: the recipient key, and for USDC the
\* recipient's associated token address, which getAssociatedTokenAddressSync
\* refuses (throws) for an owner key that is off the curve.  The amount handed
\* to the instruction is Math.floor(amount * 10^decimals).
BuildInstructionMutant(recipient, amount, token, offCurve) ==
    [threw |-> ~PublicKey(trim(recipient)).ok \/ (token = "USDC" /\ offCurve),
     units |-> ScaledFloor(amount, 9)]
BuildInstruction(recipient, amount, token, offCurve) ==
    [threw |-> ~PublicKey(trim(recipient)).ok \/ (token = "USDC" /\ offCurve),
     units |-> ScaledFloor(amount, Decimals(token))]

\* What TokenOwnerOffCurveError and `new PublicKey` throw: Errors whose
\* message holds none of the keywords.
BuildError == [isError |-> TRUE, words |-> {}, text |-> "TokenOwnerOffCurveError"]

\* no instruction was handed to the SDK
NoUnits == [giga |-> 0, rest |-> 0]

\* History record of a transfer attempt: its inputs, what it read, what it
\* returned, the page's state before it, and the amount of the instruction
\* it handed to the SDK.
TransferOp(name, recipient, amountStr, token, result) ==
    [op |-> name, recipient |-> recipient, amountStr |-> amountStr,
     token |-> token, conn |-> isConnected, pk |-> smartWalletPubkey,
     result |-> result, callsBefore |-> sdkCalls, resultBefore |-> fResult,
     loadingBefore |-> tIsLoading, units |-> NoUnits]

formVars == <<fRecipient, fAmount, fToken, fLoading, fResult, fPending>>
hookVars == <<tIsLoading, tError, tSignature, tPending>>
notTransfer == <<sessionVars, balanceVars, validatorVars>>

\* ---- useTransfer
\* transfer({recipient, amount, token}) runs to its first await or return.
Transfer(recipient, amount, token, offCurve) ==
    /\ page = "hook"
    /\ sdkCalls < MaxCalls /\ tPending < MaxPending
    /\ LET pre == TransferPreflight(isConnected, smartWalletPubkey,
                                    recipient, amount, token)
           ins == BuildInstruction(recipient, amount, token, offCurve)
       IN IF ~pre.valid
          THEN /\ tError' = pre.error
               /\ tSignature' = NoError
               /\ UNCHANGED <<tIsLoading, tPending, sdkCalls>>
               /\ last' = TransferOp("transfer", recipient, toString(amount),
                                     token, Failure(pre.error))
          ELSE IF ins.threw
          THEN /\ tError' = sanitizeError(BuildError, nodeEnv)
               /\ tSignature' = NoError
               /\ tIsLoading' = FALSE
               /\ UNCHANGED <<tPending, sdkCalls>>
               /\ last' = TransferOp("transfer", recipient, toString(amount), token,
                                     Failure(sanitizeError(BuildError, nodeEnv)))
          ELSE /\ tError' = NoError
               /\ tSignature' = NoError
               /\ tIsLoading' = TRUE
               /\ tPending' = tPending + 1
               /\ sdkCalls' = sdkCalls + 1
               /\ last' = [TransferOp("transfer", recipient, toString(amount),
                                      token, NoResult)
                             EXCEPT !.units = ins.units]
    /\ UNCHANGED <<walletVars, page, formVars, notTransfer>>

\* finally { setIsLoading(false) }
FinallyMutant(loading) == loading
Finally(loading) == FALSE

\* History record of a transfer call that returned after its SDK call.
SettledOp(result) == [op |-> "transferSettled", result |-> result]

\* signAndSendTransaction resolved: setSignature, then finally.
TransferResolved(sig) ==
    /\ page = "hook" /\ tPending > 0
    /\ tPending' = tPending - 1
    /\ tSignature' = sig
    /\ tIsLoading' = Finally(tIsLoading)
    /\ last' = SettledOp(Success(sig))
    /\ UNCHANGED <<walletVars, page, tError, sdkCalls, formVars, notTransfer>>

\* signAndSendTransaction rejected: the catch block, then finally.
TransferRejected(err) ==
    /\ page = "hook" /\ tPending > 0
    /\ tPending' = tPending - 1
    /\ tError' = sanitizeError(err, nodeEnv)
    /\ tIsLoading' = Finally(tIsLoading)
    /\ last' = SettledOp(Failure(sanitizeError(err, nodeEnv)))
    /\ UNCHANGED <<walletVars, page, tSignature, sdkCalls, formVars, notTransfer>>

\* reset()
TransferReset ==
    /\ page = "hook"
    /\ <<tError, tSignature>> # <<NoError, NoError>>
    /\ tError' = NoError
    /\ tSignature' = NoError
    /\ last' = Op("reset")
    /\ UNCHANGED <<walletVars, page, tIsLoading, tPending, sdkCalls, formVars,
                   notTransfer>>

\* ---- TransferForm
\* The recipient input's onChange: trim, then drop every character that is not
\* in the base58 alphabet.
Sanitize(raw) == SelectSeq(trim(raw), IsB58)

FormSetRecipient(raw) ==
    /\ page = "form"
    /\ fRecipient' = Sanitize(raw)
    /\ fRecipient' # fRecipient
    /\ last' = Op("input")
    /\ UNCHANGED <<walletVars, page, hookVars, fAmount, fToken, fLoading,
                   fResult, fPending, sdkCalls, notTransfer>>

FormSetAmount(raw) ==
    /\ page = "form"
    /\ raw # fAmount
    /\ fAmount' = raw
    /\ last' = Op("input")
    /\ UNCHANGED <<walletVars, page, hookVars, fRecipient, fToken, fLoading,
                   fResult, fPending, sdkCalls, notTransfer>>

FormSetToken(t) ==
    /\ page = "form"
    /\ t # fToken
    /\ fToken' = t
    /\ last' = Op("input")
    /\ UNCHANGED <<walletVars, page, hookVars, fRecipient, fAmount, fLoading,
                   fResult, fPending, sdkCalls, notTransfer>>

\* handleTransfer, to its first await or return.  The form is rendered only
\* while isConnected, and the Send button is disabled while loading or while
\* either field is empty.
HandleTransfer(offCurve) ==
    /\ page = "form"
    /\ isConnected /\ ~fLoading /\ fRecipient # <<>> /\ fAmount # <<>>
    /\ sdkCalls < MaxCalls
    /\ LET pre == FormPreflight(smartWalletPubkey, fRecipient, fAmount, fToken)
           ins == BuildInstruction(fRecipient, parseFloat(fAmount), fToken, offCurve)
       IN IF pre.silent
          THEN /\ UNCHANGED <<fLoading, fResult, fPending, sdkCalls>>
               /\ last' = TransferOp("handleTransfer", fRecipient, fAmount,
                                     fToken, NoResult)
          ELSE IF ~pre.check.valid
          THEN /\ fResult' = Failure(pre.check.error)
               /\ UNCHANGED <<fLoading, fPending, sdkCalls>>
               /\ last' = TransferOp("handleTransfer", fRecipient, fAmount,
                                     fToken, Failure(pre.check.error))
          ELSE IF ins.threw
          THEN /\ fResult' = Failure(sanitizeError(BuildError, nodeEnv))
               /\ fLoading' = FALSE
               /\ UNCHANGED <<fPending, sdkCalls>>
               /\ last' = TransferOp("handleTransfer", fRecipient, fAmount, fToken,
                                     Failure(sanitizeError(BuildError, nodeEnv)))
          ELSE /\ fResult' = NoResult
               /\ fLoading' = TRUE
               /\ fPending' = fPending + 1
               /\ sdkCalls' = sdkCalls + 1
               /\ last' = [TransferOp("handleTransfer", fRecipient, fAmount,
                                      fToken, NoResult)
                             EXCEPT !.units = ins.units]
    /\ UNCHANGED <<walletVars, page, hookVars, fRecipient, fAmount, fToken,
                   notTransfer>>

FormResolved(sig) ==
    /\ page = "form" /\ fPending > 0
    /\ fPending' = fPending - 1
    /\ fResult' = Success(sig)
    /\ fRecipient' = <<>>
    /\ fAmount' = <<>>
    /\ fLoading' = FALSE
    /\ last' = Op("formSettled")
    /\ UNCHANGED <<walletVars, page, hookVars, fToken, sdkCalls, notTransfer>>

FormRejected(err) ==
    /\ page = "form" /\ fPending > 0
    /\ fPending' = fPending - 1
    /\ fResult' = Failure(sanitizeError(err, nodeEnv))
    /\ fLoading' = FALSE
    /\ last' = Op("formSettled")
    /\ UNCHANGED <<walletVars, page, hookVars, fRecipient, fAmount, fToken,
                   sdkCalls, notTransfer>>

\* The SDK changes its observable fields while the transfer page is shown.
TransferWalletUpdate(conn, pk) ==
    /\ <<conn, pk>> # <<isConnected, smartWalletPubkey>>
    /\ isConnected' = conn
    /\ smartWalletPubkey' = pk
    /\ last' = Op("wallet")
    /\ UNCHANGED <<nodeEnv, transferVars, notTransfer>>

\* ---- inputs
\* numbers passed to useTransfer.transfer
AmountNumbers ==
    { NumNaN, Zero, Number(TRUE, 1, <<>>), Number(FALSE, 1, <<5>>),
      Number(FALSE, 1000000, <<5>>), Number(FALSE, 0, <<0, 0, 0, 0, 0, 0, 1>>) }
\* strings the amount input holds
AmountStrings ==
    { <<"0">>, <<"-", "1">>, <<"1", ".", "5">>,
      <<"1", "0", "0", "0", "0", "0", "0", ".", "5">>,
      <<"0", ".", "0", "0", "0", "0", "0", "0", "1">> }

SdkErrors == { e \in Thrown : e.words \subseteq {"user rejected"} }
Signatures == {"sig1"}

InitTransfer ==
    /\ isConnected \in BOOLEAN
    /\ smartWalletPubkey \in {NoPubkey, "A1"}
    /\ nodeEnv \in {"production", "development"}
    /\ page \in {"hook", "form"}
    /\ tIsLoading = FALSE /\ tError = NoError /\ tSignature = NoError
    /\ tPending = 0
    /\ fRecipient = <<>> /\ fAmount = <<>> /\ fToken = "SOL"
    /\ fLoading = FALSE /\ fResult = NoResult /\ fPending = 0
    /\ sdkCalls = 0
    /\ storage = Absent /\ now = 0 /\ variant = "simple"
    /\ status = "loading" /\ lastActive = NullDate /\ isReturningUser = FALSE
    /\ timer = NoTimer
    /\ hdPc = "idle" /\ wcError = NoError /\ signedOut = FALSE
    /\ last = Op("mount")
    /\ BalanceIdle
    /\ ValidatorIdle

NextTransfer ==
    \/ \E r \in AddressSamples, a \in AmountNumbers, t \in {"SOL", "USDC"},
          o \in BOOLEAN : Transfer(r, a, t, o)
    \/ \E sig \in Signatures : TransferResolved(sig)
    \/ \E e \in SdkErrors : TransferRejected(e)
    \/ TransferReset
    \/ \E r \in AddressSamples : FormSetRecipient(r)
    \/ \E a \in AmountStrings : FormSetAmount(a)
    \/ \E t \in {"SOL", "USDC"} : FormSetToken(t)
    \/ \E o \in BOOLEAN : HandleTransfer(o)
    \/ \E sig \in Signatures : FormResolved(sig)
    \/ \E e \in SdkErrors : FormRejected(e)
    \/ \E c \in BOOLEAN, p \in {NoPubkey, "A1"} : TransferWalletUpdate(c, p)

SpecTransfer == InitTransfer /\ [][NextTransfer]_vars

\* =============================================================== balances
LAMPORTS_PER_SOL == 1000000000
REFRESH_INTERVAL == 30000

\* ---- what an RPC query is or has become
NoThrown == [isError |-> FALSE, words |-> {}, text |-> ""]
NotIssued == [k |-> "notIssued", v |-> 0, ui |-> <<>>, err |-> NoThrown]
Pending == [k |-> "pending", v |-> 0, ui |-> <<>>, err |-> NoThrown]
\* getBalance resolved with a number of lamports
Lamports(v) == [k |-> "fulfilled", v |-> v, ui |-> <<>>, err |-> NoThrown]
\* getTokenAccountBalance resolved with value.uiAmountString
TokenAmount(ui) == [k |-> "fulfilled", v |-> 0, ui |-> ui, err |-> NoThrown]
QueryRejected(err) == [k |-> "rejected", v |-> 0, ui |-> <<>>, err |-> err]
IsSettled(q) == q.k \in {"fulfilled", "rejected"}

\* the RPC node's answer for a token account that does not exist
AccountNotFound ==
    [isError |-> TRUE, words |-> {}, text |-> "could not find account"]
NetworkDown ==
    [isError |-> TRUE, words |-> {"network"}, text |-> "Network request failed"]

\* solBalance / LAMPORTS_PER_SOL, as a decimal
ToSolMutant(v) ==
    LET r == v % LAMPORTS_PER_SOL
    IN Number(FALSE, v \div LAMPORTS_PER_SOL,
              StripZeros([i \in 1..2 |-> (r \div Pow10(9 - i)) % 10]))
ToSol(v) ==
    LET r == v % LAMPORTS_PER_SOL
    IN Number(FALSE, v \div LAMPORTS_PER_SOL,
              StripZeros([i \in 1..9 |-> (r \div Pow10(9 - i)) % 10]))

\* The native balance published for a settled getBalance: only the allSettled
\* variant gets here with a rejected query.
SolBalance(q) == IF q.k = "fulfilled" THEN ToSol(q.v) ELSE Zero

\* The stablecoin balance published for a settled getTokenAccountBalance:
\* parseFloat(uiAmountString || "0"), and 0 when the query was rejected.
UsdcBalanceMutant(q) ==
    IF q.k = "fulfilled" THEN parseFloat(IF q.ui = <<>> THEN <<"0">> ELSE q.ui)
    ELSE NumNaN
UsdcBalance(q) ==
    IF q.k = "fulfilled" THEN parseFloat(IF q.ui = <<>> THEN <<"0">> ELSE q.ui)
    ELSE Zero

\* err instanceof Error ? err.message : "Failed to fetch balances"
BalanceError(err) == IF err.isError THEN err.text ELSE "Failed to fetch balances"

\* A fetchBalances call in flight: the wallet of its closure, its two
\* queries, and (history) whether no error has been set since it began.
Fetch(pk) ==
    [pk |-> pk, sol |-> Pending,
     usdc |-> IF bVariant = "settled" THEN Pending ELSE NotIssued,
     clean |-> TRUE]

Remove(bag, f) == bag (-) SetToBag({f})
Replace(bag, f, g) == Remove(bag, f) (+) SetToBag({g})
\* every fetch of the bag marked as having seen an error set
Soiled(bag) ==
    LET Copies(g) == IF g \in DOMAIN bag THEN bag[g] ELSE 0
    IN [g \in {[f EXCEPT !.clean = FALSE] : f \in DOMAIN bag}
          |-> Copies(g) + Copies([g EXCEPT !.clean = TRUE])]

\* History record of a fetch that ran to its end.
FetchOp(name, f) ==
    [op |-> name, pk |-> f.pk, sol |-> f.sol, usdc |-> f.usdc,
     clean |-> f.clean, mounted |-> isMounted, errorBefore |-> bError,
     balancesBefore |-> balances]

notBalance == <<sessionVars, transferVars, validatorVars>>

\* The effect's cleanup, `() => clearInterval(interval)`: it exists only when
\* the effect set a timer, and stops that timer.
ClearIntervalMutant(active, handle) == active
ClearInterval(active, handle) ==
    IF handle.active THEN active (-) SetToBag({handle.pk}) ELSE active

\* History record of a timer tick: the wallet its closure holds.
TimerOp(pk) == [op |-> "interval", pk |-> pk, waited |-> elapsed]

\* fetchBalances() up to its first await, for a closure holding wallet pk:
\* without a wallet it returns at once.
StartFetch(pk) ==
    IF pk = NoPubkey
    THEN UNCHANGED <<bIsLoading, bError, fetches>>
    ELSE /\ bIsLoading' = TRUE
         /\ bError' = NoError
         /\ fetches' = fetches (+) SetToBag({Fetch(pk)})

\* The effect's body calls fetchBalances() before it sets the interval.
EffectFetchMutant(pk) == StartFetch(NoPubkey)
EffectFetch(pk) == StartFetch(pk)

\* The SDK changes its observable fields: the effect's cleanup clears the
\* interval, and when connected with a wallet the effect fetches and sets a
\* new interval.
BalanceWalletUpdate(conn, pk) ==
    /\ isMounted
    /\ <<conn, pk>> # <<isConnected, smartWalletPubkey>>
    /\ isConnected' = conn
    /\ smartWalletPubkey' = pk
    /\ IF conn /\ pk # NoPubkey
       THEN /\ BagCardinality(fetches) < MaxFetches
            /\ EffectFetch(pk)
            /\ interval' = [active |-> TRUE, pk |-> pk]
            /\ timers' = ClearInterval(timers, interval) (+) SetToBag({pk})
       ELSE /\ interval' = NoInterval
            /\ timers' = ClearInterval(timers, interval)
            /\ UNCHANGED <<bIsLoading, bError, fetches>>
    /\ elapsed' = 0
    /\ last' = Op("wallet")
    /\ UNCHANGED <<nodeEnv, bVariant, balances, isMounted, notBalance>>

\* An active interval timer fires, REFRESH_INTERVAL after it was set or last
\* fired: fetchBalances of the render that set it.
IntervalFires ==
    /\ BagCardinality(fetches) < MaxFetches
    /\ elapsed = REFRESH_INTERVAL
    /\ UNCHANGED walletVars
    /\ \E pk \in BagToSet(timers) :
          /\ StartFetch(pk)
          /\ last' = TimerOp(pk)
    /\ elapsed' = 0
    /\ UNCHANGED <<bVariant, balances, isMounted, interval, timers, notBalance>>

\* Time passes while a timer is active, up to the moment it is due.
TimePasses(d) ==
    /\ timers # EmptyBag
    /\ elapsed + d <= REFRESH_INTERVAL
    /\ elapsed' = elapsed + d
    /\ last' = Op("time")
    /\ UNCHANGED <<walletVars, bVariant, balances, bIsLoading, bError, isMounted,
                   interval, timers, fetches, notBalance>>

\* refresh(): fetchBalances of the current render.
Refresh ==
    /\ isMounted
    /\ BagCardinality(fetches) < MaxFetches
    /\ UNCHANGED walletVars
    /\ StartFetch(smartWalletPubkey)
    /\ last' = Op("refresh")
    /\ UNCHANGED <<bVariant, balances, isMounted, interval, timers, elapsed,
                   notBalance>>

\* The component unmounts: both effects' cleanups run.
Unmount ==
    /\ isMounted
    /\ isMounted' = FALSE
    /\ interval' = NoInterval
    /\ timers' = ClearInterval(timers, interval)
    /\ elapsed' = 0
    /\ last' = Op("unmount")
    /\ UNCHANGED <<walletVars, bVariant, balances, bIsLoading, bError, fetches,
                   notBalance>>

\* The end of fetch f0, whose queries have become f.sol and f.usdc: setBalances, then
\* finally.  Nothing is set once unmounted (the allSettled variant returns;
\* in the others React drops the updates).
Publish(f0, f) ==
    /\ fetches' = Remove(fetches, f0)
    /\ IF isMounted
       THEN /\ balances' = [sol |-> SolBalance(f.sol), usdc |-> UsdcBalance(f.usdc)]
            /\ bIsLoading' = FALSE
       ELSE UNCHANGED <<balances, bIsLoading>>
    /\ UNCHANGED bError
    /\ last' = FetchOp("fetchDone", f)

\* The outer catch of the sequential variants, then finally: getBalance was
\* rejected.  The hook sets error, the component stays silent.
Fail(f0, f) ==
    /\ IF isMounted
       THEN /\ bError' = IF bVariant = "sequential" THEN BalanceError(f.sol.err)
                         ELSE bError
            /\ bIsLoading' = FALSE
            /\ fetches' = IF bVariant = "sequential"
                          THEN Soiled(Remove(fetches, f0))
                          ELSE Remove(fetches, f0)
       ELSE /\ UNCHANGED <<bError, bIsLoading>>
            /\ fetches' = Remove(fetches, f0)
    /\ UNCHANGED balances
    /\ last' = FetchOp("fetchFailed", f)

\* getBalance of the in-flight fetch f0 settles with q.
SolSettles(f0, q) ==
    /\ BagIn(f0, fetches)
    /\ f0.sol.k = "pending"
    /\ LET f == [f0 EXCEPT !.sol = q] IN
       IF bVariant = "settled"
       THEN IF IsSettled(f.usdc)
            THEN Publish(f0, f)
            ELSE /\ fetches' = Replace(fetches, f0, f)
                 /\ last' = Op("query")
                 /\ UNCHANGED <<balances, bIsLoading, bError>>
       ELSE IF q.k = "rejected"
            THEN Fail(f0, f)
            ELSE /\ fetches' = Replace(fetches, f0, [f EXCEPT !.usdc = Pending])
                 /\ last' = Op("query")
                 /\ UNCHANGED <<balances, bIsLoading, bError>>
    /\ UNCHANGED <<walletVars, bVariant, isMounted, interval, timers, elapsed,
                   notBalance>>

\* getTokenAccountBalance of the in-flight fetch f0 settles with q.
UsdcSettles(f0, q) ==
    /\ BagIn(f0, fetches)
    /\ f0.usdc.k = "pending"
    /\ LET f == [f0 EXCEPT !.usdc = q] IN
       IF bVariant = "settled" /\ ~IsSettled(f.sol)
       THEN /\ fetches' = Replace(fetches, f0, f)
            /\ last' = Op("query")
            /\ UNCHANGED <<balances, bIsLoading, bError>>
       ELSE Publish(f0, f)
    /\ UNCHANGED <<walletVars, bVariant, isMounted, interval, timers, elapsed,
                   notBalance>>

\* ---- inputs
SolAnswers == {Lamports(1500000001), QueryRejected(NetworkDown),
               QueryRejected([isError |-> FALSE, words |-> {},
                              text |-> "a string was thrown"])}
UsdcAnswers == {TokenAmount(<<"1", "2", ".", "5">>), TokenAmount(<<>>),
                QueryRejected(AccountNotFound), QueryRejected(NetworkDown)}

InitBalance ==
    /\ isConnected = FALSE
    /\ smartWalletPubkey = NoPubkey
    /\ nodeEnv = "production"
    /\ bVariant \in {"settled", "sequential", "component"}
    /\ balances = DEFAULT_BALANCES
    /\ bIsLoading = FALSE /\ bError = NoError
    /\ isMounted = TRUE
    /\ interval = NoInterval
    /\ timers = EmptyBag
    /\ elapsed = 0
    /\ fetches = EmptyBag
    /\ TransferIdle
    /\ ValidatorIdle
    /\ storage = Absent /\ now = 0 /\ variant = "simple"
    /\ status = "loading" /\ lastActive = NullDate /\ isReturningUser = FALSE
    /\ timer = NoTimer
    /\ hdPc = "idle" /\ wcError = NoError /\ signedOut = FALSE
    /\ last = Op("mount")

NextBalance ==
    \/ \E c \in BOOLEAN, p \in Pubkeys \cup {NoPubkey} : BalanceWalletUpdate(c, p)
    \/ IntervalFires
    \/ \E d \in {REFRESH_INTERVAL \div 2, REFRESH_INTERVAL} : TimePasses(d)
    \/ Refresh
    \/ Unmount
    \/ \E f \in BagToSet(fetches), q \in SolAnswers : SolSettles(f, q)
    \/ \E f \in BagToSet(fetches), q \in UsdcAnswers : UsdcSettles(f, q)

SpecBalance == InitBalance /\ [][NextBalance]_vars

\* ============================================================= validators
\* validateAddress and validateAmount called on their own, as a caller of
\* lib/validation.ts may, on arguments of its choice.

\* ---- inputs
Ones(n) == [i \in 1..n |-> "1"]
UsdcMint ==
    <<"4", "z", "M", "M", "C", "9", "s", "r", "t", "5", "R", "i",
      "5", "X", "1", "4", "G", "A", "g", "X", "h", "a", "H", "i",
      "i", "3", "G", "n", "P", "A", "E", "E", "R", "Y", "P", "J",
      "g", "Z", "J", "D", "n", "c", "D", "U">>

\* Beside the strings the pages are given: a tab and a line feed alone, three
\* letters, runs of "1" around the length limits (31, 33, 45), the system
\* program between a tab and a line feed, the USDC mint followed by one more
\* character, 32 letters that decode to fewer than 32 bytes, and 32
\* characters with one outside the alphabet.
AddressInputs ==
    AddressSamples \cup
    { <<"\t", "\n">>,
      <<"a", "b", "c">>,
      Ones(31), Ones(33), Ones(45),
      <<"\t">> \o Ones(32) \o <<"\n">>,
      UsdcMint \o <<"U">>,
      [i \in 1..32 |-> "z"],
      Ones(31) \o <<"0">> }

AmountInputs ==
    { <<>>,
      <<"a", "b", "c">>,
      <<"0">>,
      <<"0", ".", "0">>,
      <<"-", "1">>,
      <<"1", ".", "5">>,
      <<"1", ".", "5", "a", "b", "c">>,
      <<"1", ",", "0", "0", "0">>,
      <<"1", "0", "0", "0", "0", "0", "0">>,
      <<"1", "0", "0", "0", "0", "0", "0", ".", "0", "0", "0", "0", "0", "0",
        "0", "0", "1">>,
      <<"1", "0", "0", "0", "0", "0", "1">>,
      <<"1", "0", "0", "0", "0", "0", "0", "0">>,
      <<"1", "0", "0", "0", "0", "0", "0", "1">> }

\* values caught at a call site: a thrown string, and Errors whose messages
\* hold none, one or several keywords in either case (text is the message as
\* a whole, message its characters)
ErrorInputs ==
    { [isError |-> FALSE, text |-> "timeout",
        message |-> <<"t", "i", "m", "e", "o", "u", "t">>],
      [isError |-> TRUE, text |-> "Insufficient lamports",
        message |-> <<"I", "n", "s", "u", "f", "f", "i", "c", "i", "e", "n", "t", " ", "l", "a", "m", "p", "o", "r", "t", "s">>],
      [isError |-> TRUE, text |-> "NETWORK down",
        message |-> <<"N", "E", "T", "W", "O", "R", "K", " ", "d", "o", "w", "n">>],
      [isError |-> TRUE, text |-> "User Rejected the request",
        message |-> <<"U", "s", "e", "r", " ", "R", "e", "j", "e", "c", "t", "e", "d", " ", "t", "h", "e", " ", "r", "e", "q", "u", "e", "s", "t">>],
      [isError |-> TRUE, text |-> "Timeout exceeded",
        message |-> <<"T", "i", "m", "e", "o", "u", "t", " ", "e", "x", "c", "e", "e", "d", "e", "d">>],
      [isError |-> TRUE, text |-> "network: insufficient funds",
        message |-> <<"n", "e", "t", "w", "o", "r", "k", ":", " ", "i", "n", "s", "u", "f", "f", "i", "c", "i", "e", "n", "t", " ", "f", "u", "n", "d", "s">>],
      [isError |-> TRUE, text |-> "user rejected after network timeout",
        message |-> <<"u", "s", "e", "r", " ", "r", "e", "j", "e", "c", "t", "e", "d", " ", "a", "f", "t", "e", "r", " ", "n", "e", "t", "w", "o", "r", "k", " ", "t", "i", "m", "e", "o", "u", "t">>],
      [isError |-> TRUE, text |-> "Signing failed: 0x1771",
        message |-> <<"S", "i", "g", "n", "i", "n", "g", " ", "f", "a", "i", "l", "e", "d", ":", " ", "0", "x", "1", "7", "7", "1">>] }

Returned(fn, result) == [fn |-> fn, result |-> result]

\* validateAddress(argAddress)
ValidateAddressCall ==
    /\ returned' = Returned("validateAddress", validateAddress(argAddress))
    /\ last' = Op("validateAddress")
    /\ UNCHANGED <<argAddress, argAmount, argTokenType, argErr>>
    /\ UNCHANGED <<walletVars, sessionVars, transferVars, balanceVars>>

\* validateAmount(argAmount, argTokenType)
ValidateAmountCall ==
    /\ returned' = Returned("validateAmount", validateAmount(argAmount, argTokenType))
    /\ last' = Op("validateAmount")
    /\ UNCHANGED <<argAddress, argAmount, argTokenType, argErr>>
    /\ UNCHANGED <<walletVars, sessionVars, transferVars, balanceVars>>

\* sanitizeError(argErr), under the NODE_ENV of the build
SanitizeErrorCall ==
    /\ returned' = Returned("sanitizeError",
                            sanitizeError(Caught(argErr), nodeEnv))
    /\ last' = Op("sanitizeError")
    /\ UNCHANGED <<argAddress, argAmount, argTokenType, argErr>>
    /\ UNCHANGED <<walletVars, sessionVars, transferVars, balanceVars>>

InitValidators ==
    /\ argAddress \in AddressInputs
    /\ argAmount \in AmountInputs
    /\ argTokenType \in {"SOL", "USDC"}
    /\ argErr \in ErrorInputs
    /\ returned = NotCalled
    /\ isConnected = FALSE /\ smartWalletPubkey = NoPubkey
    /\ nodeEnv \in {"production", "development", "test"}
    /\ TransferIdle
    /\ BalanceIdle
    /\ storage = Absent /\ now = 0 /\ variant = "simple"
    /\ status = "loading" /\ lastActive = NullDate /\ isReturningUser = FALSE
    /\ timer = NoTimer
    /\ hdPc = "idle" /\ wcError = NoError /\ signedOut = FALSE
    /\ last = Op("mount")

NextValidators ==
    \/ ValidateAddressCall
    \/ ValidateAmountCall
    \/ SanitizeErrorCall

SpecValidators == InitValidators /\ [][NextValidators]_vars


\* ======================================================= claims: balances
\* C10: a fetch that ends while mounted, whose getBalance was fulfilled and
\* whose getTokenAccountBalance was rejected because the account does not
\* exist, publishes usdc = 0 and sol = the fetched lamports / 10^9, and sets
\* no error: error is what it was before the fetch ended, and is null unless
\* another fetch failed after this one began.
C10_MissingUsdcIsZero ==
    (/\ last.op = "fetchDone"
     /\ last.mounted
     /\ last.sol.k = "fulfilled"
     /\ last.usdc.k = "rejected"
     /\ last.usdc.err.text = "could not find account")
    => /\ balances.usdc = [nan |-> FALSE, neg |-> FALSE, whole |-> 0, frac |-> <<>>]
       /\ balances.sol.whole * 1000000000
              + FirstDigits(balances.sol.frac, 9) = last.sol.v
       /\ ~balances.sol.nan /\ ~balances.sol.neg
       /\ bError = last.errorBefore
       /\ last.clean => bError = "null"

\* A fetch that found 1.500000001 SOL and no USDC account has ended.
C10_Witness ==
    /\ last.op = "fetchDone"
    /\ last.mounted
    /\ last.sol.k = "fulfilled" /\ last.sol.v = 1500000001
    /\ last.usdc.k = "rejected"
    /\ last.usdc.err.text = "could not find account"
    /\ balances.sol.whole = 1
    /\ bError = "null"

\* A fetch of one of the two useBalance hooks has run to its end while mounted.
HookFetchEnded ==
    /\ last.op \in {"fetchDone", "fetchFailed"}
    /\ last.mounted
    /\ bVariant \in {"settled", "sequential"}

\* C11: when exactly one of the two queries of a useBalance fetch failed, the
\* failing asset is reported as 0 and the other asset as the value its query
\* returned, whichever of the two queries it was that failed.
C11_OneFailureIsZero ==
    HookFetchEnded =>
        /\ (last.sol.k = "rejected" /\ last.usdc.k # "rejected")
              => /\ balances.sol = [nan |-> FALSE, neg |-> FALSE, whole |-> 0,
                                    frac |-> <<>>]
                 /\ last.usdc.k = "fulfilled"
                 /\ balances.usdc
                      = parseFloat(IF last.usdc.ui = <<>> THEN <<"0">> ELSE last.usdc.ui)
        /\ (last.usdc.k = "rejected" /\ last.sol.k = "fulfilled")
              => /\ balances.usdc = [nan |-> FALSE, neg |-> FALSE, whole |-> 0,
                                     frac |-> <<>>]
                 /\ balances.sol.whole * 1000000000
                        + FirstDigits(balances.sol.frac, 9) = last.sol.v

\* C12: every fetch of a useBalance hook issues both queries at its start (so
\* neither start waits for the other's outcome): no fetch is in flight or has
\* ended with a query that was not issued; and balances are published only by
\* a fetch both of whose queries have settled.
C12_BothQueriesIssued ==
    bVariant \in {"settled", "sequential"} =>
        /\ \A f \in BagToSet(fetches) :
              f.sol.k # "notIssued" /\ f.usdc.k # "notIssued"
        /\ last.op \in {"fetchDone", "fetchFailed"} =>
              last.sol.k # "notIssued" /\ last.usdc.k # "notIssued"
        /\ last.op = "fetchDone" =>
              /\ last.sol.k \in {"fulfilled", "rejected"}
              /\ last.usdc.k \in {"fulfilled", "rejected"}

\* C13: the polling timer is cancelled on disconnect and on unmount, and at
\* most one timer is active: no timer is active while the wallet is not
\* connected with an address or the component is unmounted, a timer-triggered
\* fetch starts only while mounted and connected, for the current wallet, and
\* there is never more than one active timer.
C13_TimerCancelled ==
    /\ BagCardinality(timers) <= 1
    /\ (~isMounted \/ ~isConnected \/ smartWalletPubkey = "null")
          => timers = EmptyBag
    /\ last.op = "interval" =>
          /\ isMounted /\ isConnected
          /\ last.pk # "null" /\ last.pk = smartWalletPubkey

\* The wallet address changed while connected, the timer of the new wallet
\* fired, and it is the only one.
C13_Witness ==
    /\ last.op = "interval"
    /\ last.pk = "A2"
    /\ bIsLoading
    /\ BagCardinality(timers) = 1

\* a fetch for wallet pk is in flight and the busy flag is up
Fetching(pk) ==
    /\ bIsLoading
    /\ \E f \in BagToSet(fetches) : f.pk = pk /\ f.sol.k = "pending"

\* C14: when the wallet state changes to connected with an address, a fetch
\* for that wallet starts in the same step, with no time elapsed; while
\* connected and mounted exactly the timer of that wallet is active and never
\* overdue; and each time it fires, 30000 ms after it was set or last fired, a
\* further fetch for that wallet starts.
C14_FetchOnConnectAndTick ==
    /\ (last.op = "wallet" /\ isMounted /\ isConnected /\ smartWalletPubkey # "null")
          => Fetching(smartWalletPubkey) /\ elapsed = 0
    /\ (isMounted /\ isConnected /\ smartWalletPubkey # "null")
          => timers = SetToBag({smartWalletPubkey}) /\ elapsed <= 30000
    /\ last.op = "interval"
          => last.waited = 30000 /\ Fetching(last.pk) /\ elapsed = 0

\* The timer fired, 30000 ms after it was set or last fired, while an earlier
\* fetch for the same wallet was still in flight.
C14_Witness ==
    /\ last.op = "interval"
    /\ last.waited = 30000
    /\ BagCardinality(fetches) = 2
    /\ \A f \in BagToSet(fetches) : f.pk = last.pk
    /\ isConnected /\ isMounted

\* C15: a fetch that ends when the component is unmounted, or when the wallet
\* address is no longer the one the fetch was issued for (another wallet, or
\* none after a disconnect), does not modify the exposed balances.
C15_LateResultDiscarded ==
    (/\ last.op \in {"fetchDone", "fetchFailed"}
     /\ (~isMounted \/ smartWalletPubkey # last.pk))
    => balances = last.balancesBefore

\* Both queries of the fetch that just ended failed: in the sequential hook the
\* second query is not issued once getBalance has been rejected.
FailedOutright ==
    /\ last.op \in {"fetchDone", "fetchFailed"}
    /\ last.sol.k = "rejected"
    /\ last.usdc.k \in {"rejected", "notIssued"}

\* C16: after a useBalance fetch in which both queries failed has ended while
\* mounted, error is not null; and right after a fetch has started, error is
\* null.
C16_OutrightFailureSetsError ==
    /\ (HookFetchEnded /\ FailedOutright) => bError # "null"
    /\ (/\ last.op \in {"wallet", "refresh", "interval"}
        /\ isMounted /\ bVariant \in {"settled", "sequential"}
        /\ \E f \in BagToSet(fetches) : f.clean /\ f.sol.k = "pending")
          => bError = "null"

\* C17: a fetch in which both queries failed leaves the exposed balances as
\* they were before it ended.
C17_OutrightFailureKeepsBalances ==
    FailedOutright => balances = last.balancesBefore


\* C25: after a fetch that published a fulfilled getBalance, the native
\* balance is the number of lamports divided by 10^9, digit for digit (at most
\* nine fraction digits, none dropped), and neither balance is negative or
\* NaN.
C25_NativeBalanceExact ==
    (/\ last.op = "fetchDone" /\ last.mounted
     /\ last.sol.k = "fulfilled")
    => /\ ~balances.sol.nan /\ ~balances.sol.neg
       /\ Len(balances.sol.frac) <= 9
       /\ balances.sol.whole = last.sol.v \div 1000000000
       /\ FirstDigits(balances.sol.frac, 9) = last.sol.v % 1000000000
       /\ ~balances.usdc.nan /\ ~balances.usdc.neg

\* A fetch published 1500000001 lamports as 1.500000001 SOL.
C25_Witness ==
    /\ last.op = "fetchDone" /\ last.mounted
    /\ last.sol.k = "fulfilled"
    /\ last.sol.v = 1500000001
    /\ balances.sol = [nan |-> FALSE, neg |-> FALSE, whole |-> 1,
                       frac |-> <<5, 0, 0, 0, 0, 0, 0, 0, 1>>]

\* C27: while the component is mounted and at least one fetch is in flight,
\* the busy flag is true.
C27_BusyWhileFetching ==
    (isMounted /\ fetches # EmptyBag) => bIsLoading

\* ====================================================== claims: transfers
TransferAttempt == last.op \in {"transfer", "handleTransfer"}

\* the attempt made a signAndSendTransaction call
SdkCalled == sdkCalls = last.callsBefore + 1

\* the checks the attempt's inputs had to pass
ChecksPassed ==
    /\ last.pk # "null"
    /\ last.op = "transfer" => last.conn
    /\ validateAddress(last.recipient).valid
    /\ validateAmount(last.amountStr, last.token).valid

\* the attempt ended with an error result that the page shows
LocalError ==
    IF last.op = "transfer"
    THEN /\ ~last.result.success
         /\ last.result.error # "null"
         /\ tError = last.result.error
    ELSE /\ fResult.k = "result"
         /\ ~fResult.success
         /\ fResult.error # "null"

\* C1, as stated: a transfer attempt calls signAndSendTransaction only if the
\* wallet address is present (in useTransfer also the connection flag), the
\* recipient validated and the amount validated; an attempt that fails one of
\* the checks makes no SDK call and ends with a local error result.
C1_Original ==
    TransferAttempt =>
        /\ SdkCalled => ChecksPassed
        /\ ~ChecksPassed => ~SdkCalled /\ LocalError

\* C1, amended: as stated, except that TransferForm.handleTransfer without a
\* wallet address returns with no SDK call and leaves its result as it was;
\* every other failed check ends with a local error result.
C1_TransferGuarded ==
    TransferAttempt =>
        /\ SdkCalled => ChecksPassed
        /\ ~ChecksPassed =>
              /\ ~SdkCalled
              /\ IF last.op = "handleTransfer" /\ last.pk = "null"
                 THEN fResult = last.resultBefore
                 ELSE LocalError

\* The form is submitted while the SDK reports a connection without a wallet
\* address and no result is shown.
C1_Witness ==
    /\ TransferAttempt
    /\ last.op = "handleTransfer"
    /\ last.pk = "null"
    /\ validateAddress(last.recipient).valid
    /\ validateAmount(last.amountStr, last.token).valid
    /\ ~SdkCalled
    /\ fResult.k = "null"

\* 2^53 - 1 = 9007199254740991, as giga * 10^9 + rest
WithinSafeRange(n) ==
    n.giga < 9007199 \/ (n.giga = 9007199 /\ n.rest <= 254740991)

\* floor(x * 10^9) and floor(x * 10^6) of a non-negative decimal x
Floor9(x) ==
    [giga |-> x.whole,
     rest |-> FirstDigits(x.frac, 9)]
Floor6(x) ==
    [giga |-> x.whole \div 1000,
     rest |-> (x.whole % 1000) * 1000000 + FirstDigits(x.frac, 6)]
Smallest(amountStr, token) ==
    IF token = "SOL" THEN Floor9(parseFloat(amountStr))
    ELSE Floor6(parseFloat(amountStr))

\* C21: a transfer attempt whose amount validateAmount accepted and that
\* called the SDK handed it an instruction for floor(amount * 10^9) units
\* (SOL) or floor(amount * 10^6) units (USDC), a value of at most 2^53 - 1.
C21_ScaledAmountHandedOver ==
    (TransferAttempt /\ SdkCalled) =>
        /\ validateAmount(last.amountStr, last.token).valid
        /\ last.units = Smallest(last.amountStr, last.token)
        /\ WithinSafeRange(last.units)

\* useTransfer.transfer handed the SDK a USDC instruction for 1000000.5 USDC:
\* 1000000500000 units.
C21_Witness ==
    /\ TransferAttempt /\ SdkCalled
    /\ last.op = "transfer"
    /\ last.token = "USDC"
    /\ last.units = [giga |-> 1000, rest |-> 500000]

\* C28: in useTransfer, error and signature are never both set.
C28_ErrorXorSignature ==
    page = "hook" => (tError = "null" \/ tSignature = "null")

\* C29: a useTransfer.transfer call that returns after its SDK call settled
\* leaves isLoading false, and the hook holds what the call returned: the
\* signature of a success, the error of a failure.  A call that a pre-flight
\* or validation check turned down leaves isLoading as it was.
C29_TransferEndsSettled ==
    /\ last.op = "transferSettled" =>
          /\ ~tIsLoading
          /\ IF last.result.success
             THEN tSignature = last.result.signature /\ tSignature # "null"
             ELSE tError = last.result.error /\ tError # "null"
    /\ (last.op = "transfer" /\ ~ChecksPassed) =>
          /\ ~SdkCalled
          /\ tIsLoading = last.loadingBefore

\* A call's SDK call was rejected by the user while another call was still in
\* flight: it returned "Transaction cancelled", which the hook holds, and
\* isLoading is false.
C29_Witness ==
    /\ last.op = "transferSettled"
    /\ ~last.result.success
    /\ last.result.error = "Transaction cancelled"
    /\ tError = "Transaction cancelled"
    /\ ~tIsLoading
    /\ tPending = 1

\* C30: a transfer attempt that called the SDK handed it an instruction for
\* at least one smallest unit.
C30_NoZeroUnitTransfer ==
    (TransferAttempt /\ SdkCalled) =>
        (last.units.giga > 0 \/ last.units.rest >= 1)

\* ======================================================= claims: session
\* A stored string that is a session record in the format of the variant in
\* use, and the age of its timestamp at the time of the last step.
IsRecord(s) ==
    \/ variant = "full" /\ s.k = "session"
    \/ variant = "simple" /\ s.k = "dec"
AgeMs(s) == now - s.ms
\* The last step was a session check made with no active connection.
IdleCheck == last.op = "check" /\ ~last.active
\* The same, in the narrow sense: the connection flag itself was false.
DisconnectedCheck == last.op = "check" /\ ~last.connected
\* ... and with an active connection and a wallet address.
ActiveCheck == last.op = "check" /\ last.active

\* C2: a session check with no active connection that finds a record whose
\* timestamp is more than 24 hours old removes the record (both variants).
C2_ExpiredRecordRemoved ==
    (IdleCheck /\ IsRecord(last.stored) /\ AgeMs(last.stored) > 86400000)
        => storage = Absent
C2_Witness ==
    /\ IdleCheck /\ IsRecord(last.stored) /\ AgeMs(last.stored) > 86400000
    /\ storage = Absent

\* C3 as stated: after such a check the tracker reports "disconnected" with
\* lastActive = null and isReturningUser false.
C3_Original ==
    (variant = "full" /\ IdleCheck /\ IsRecord(last.stored)
        /\ AgeMs(last.stored) > 86400000)
        => (status = "disconnected" /\ lastActive = NullDate /\ ~ReturningUser)
\* C3 amended: after such a check isReturningUser is false in both variants;
\* the variant with a status reports "expired", and its lastActive is what it
\* was before the check.
C3_ExpiredReported ==
    (IdleCheck /\ IsRecord(last.stored) /\ AgeMs(last.stored) > 86400000)
        => /\ ~ReturningUser
           /\ variant = "full" => (status = "expired" /\ lastActive = last.la)
C3_Witness ==
    /\ variant = "full" /\ IdleCheck /\ IsRecord(last.stored)
    /\ AgeMs(last.stored) > 86400000
    /\ status = "expired" /\ lastActive # NullDate

\* C4: a session check with no active connection that finds a record at most
\* 24 hours old reports "disconnected" with the stored timestamp as last-active
\* (isReturningUser true) and leaves the record unchanged.
C4_FreshRecordKept ==
    (IdleCheck /\ IsRecord(last.stored) /\ AgeMs(last.stored) <= 86400000)
        => /\ storage = last.stored
           /\ ReturningUser
           /\ variant = "full" =>
                (status = "disconnected"
                    /\ lastActive = [k |-> "date", ms |-> last.stored.ms])
C4_Witness ==
    /\ IdleCheck /\ IsRecord(last.stored) /\ AgeMs(last.stored) = 86400000
    /\ storage = last.stored /\ ReturningUser

C6_MalformedDiscarded ==
    (DisconnectedCheck /\ last.stored # Absent /\ ~IsRecord(last.stored))
        => /\ storage = Absent
           /\ ~ReturningUser
           /\ variant = "full" => (status = "disconnected" /\ lastActive = NullDate)

\* C7: a check with no active connection and no stored record reports
\* "disconnected" with lastActive = null and isReturningUser false.
C7_NoRecordNoReturningUser ==
    (DisconnectedCheck /\ last.stored = Absent)
        => /\ ~ReturningUser
           /\ variant = "full" => (status = "disconnected" /\ lastActive = NullDate)

\* C8: after a sign-out (disconnect() resolved, clearSession() ran) with no
\* later connect, the record is absent and isReturningUser is false.
C8_SignOutClears ==
    signedOut => (storage = Absent /\ ~ReturningUser)

\* C9 as stated: when handleDisconnect returns the record is absent, whether
\* disconnect() resolved or rejected.
C9_Original ==
    last.op \in {"hdResolved", "hdRejected"} => storage = Absent
\* C9 amended: when handleDisconnect returns after disconnect() resolved the
\* record is absent; when disconnect() rejected, clearSession was not called:
\* the storage is as it was and WalletConnect shows an error.
C9_DisconnectClears ==
    /\ last.op = "hdResolved" => storage = Absent
    /\ last.op = "hdRejected" => (storage = last.stored /\ wcError # NoError)
C9_Witness ==
    last.op = "hdResolved" /\ last.stored # Absent /\ storage = Absent

\* ===================================================== claims: validators
\* C18: validateAddress judges its argument with surrounding white space
\* removed and reports the first of these that applies: nothing is left
\* ("Address required"); fewer than 32 or more than 44 characters ("Invalid
\* address length"); not the base58 form of a 32-byte key ("Invalid Solana
\* address"); the key of the system program ("Cannot send to system
\* program").  An argument to which none applies is valid.
C18_AddressChecksInOrder ==
    returned.fn = "validateAddress" =>
        LET t == trim(argAddress)
            blank == t = <<>>
            badLength == Len(t) < 32 \/ Len(t) > 44
            key == PublicKey(t)
        IN  returned.result =
              IF blank THEN [valid |-> FALSE, error |-> "Address required"]
              ELSE IF badLength
              THEN [valid |-> FALSE, error |-> "Invalid address length"]
              ELSE IF ~key.ok
              THEN [valid |-> FALSE, error |-> "Invalid Solana address"]
              ELSE IF key.bytes = [i \in 1..32 |-> 0]
              THEN [valid |-> FALSE, error |-> "Cannot send to system program"]
              ELSE [valid |-> TRUE, error |-> "null"]

\* validateAddress was given three letters, too short and not a key either,
\* and reported the length.
C18_Witness ==
    /\ returned.fn = "validateAddress"
    /\ trim(argAddress) # <<>>
    /\ Len(trim(argAddress)) < 32
    /\ ~PublicKey(trim(argAddress)).ok
    /\ returned.result = [valid |-> FALSE, error |-> "Invalid address length"]

\* The string is written as a decimal number: an optional sign, digits, and
\* optionally a point followed by digits -- and nothing else.
DenotesDecimal(str) ==
    LET body == IF str # <<>> /\ Head(str) \in {"-", "+"} THEN Tail(str) ELSE str
        n == DigitRun(body)
        rest == SubSeq(body, n + 1, Len(body))
    IN /\ n > 0
       /\ \/ rest = <<>>
          \/ /\ Head(rest) = "."
             /\ Len(rest) > 1
             /\ DigitRun(Tail(rest)) = Len(rest) - 1

\* The decimal number the string is written as is zero or negative.
DenotesNonPositive(str) ==
    /\ DenotesDecimal(str)
    /\ \/ Head(str) = "-"
       \/ \A i \in 1..Len(str) : str[i] \in {"+", "0", "."}

\* C19: validateAmount returns invalid for every string that is not written
\* as a decimal number, and for every string whose number is zero or
\* negative, whichever the token.
C19_NonNumbersRejected ==
    (/\ returned.fn = "validateAmount"
     /\ (~DenotesDecimal(argAmount) \/ DenotesNonPositive(argAmount)))
    => ~returned.result.valid

\* the number a string written as a decimal denotes, and its comparison with
\* a whole number
Denoted(str) == parseFloat(str)
Above(x, n) == ~x.neg /\ (x.whole > n \/ (x.whole = n /\ x.frac # <<>>))
Equals(x, n) == ~x.neg /\ x.whole = n /\ x.frac = <<>>

C22_ValidatorsTotal ==
    returned.fn \in {"validateAddress", "validateAmount"} =>
        /\ DOMAIN returned.result = {"valid", "error"}
        /\ returned.result.valid \in BOOLEAN
        /\ IF returned.result.valid THEN returned.result.error = "null"
           ELSE returned.result.error \notin {"null", ""}

\* validateAddress was given a string of admissible length that the PublicKey
\* constructor refuses, and returned invalid with a reason.
C22_Witness ==
    /\ returned.fn = "validateAddress"
    /\ Len(trim(argAddress)) \in 32..44
    /\ ~PublicKey(trim(argAddress)).ok
    /\ ~returned.result.valid
    /\ returned.result.error = "Invalid Solana address"

\* the lower-cased message of the value given to sanitizeError holds the word
Holds(word) == includes(toLowerCase(argErr.message), word)

\* C23: sanitizeError returns the message of the error itself only when
\* NODE_ENV is "development"; under every other NODE_ENV its result is one of
\* the six fixed messages; and for an Error whose message holds a keyword, in
\* either case, the result is that of the first keyword held, in the order
\* insufficient, network, user rejected, timeout.
C23_DetailOnlyInDevelopment ==
    returned.fn = "sanitizeError" =>
        /\ nodeEnv # "development" =>
              returned.result \in {"Operation failed", "Insufficient balance",
                                   "Network error. Try again.",
                                   "Transaction cancelled", "Request timed out",
                                   "Transaction failed"}
        /\ argErr.isError =>
              IF Holds(<<"i", "n", "s", "u", "f", "f", "i", "c", "i", "e", "n", "t">>) THEN returned.result = "Insufficient balance"
              ELSE IF Holds(<<"n", "e", "t", "w", "o", "r", "k">>) THEN returned.result = "Network error. Try again."
              ELSE IF Holds(<<"u", "s", "e", "r", " ", "r", "e", "j", "e", "c", "t", "e", "d">>) THEN returned.result = "Transaction cancelled"
              ELSE IF Holds(<<"t", "i", "m", "e", "o", "u", "t">>) THEN returned.result = "Request timed out"
              ELSE TRUE

\* ============================================== claims: session, two tabs
\* C24: a session check that runs in a tab because a storage event made it
\* re-derive its wallet state leaves the shared key as it found it: it
\* neither writes nor removes it.
C24_ObserverLeavesKey ==
    (last.op = "check" /\ last.observer) => storage = last.stored

\* C26: every pending session check holds the connection flag and the wallet
\* address that are current, so a check whose values are no longer current has
\* been cancelled; none is pending once the component is unmounted; at most one
\* is pending; and the check that ran last acted on the values current when it
\* fired.
C26_CheckActsOnCurrent ==
    /\ \A c \in PendingChecks(timer) :
          /\ c.isConnected = isConnected
          /\ c.pubkey = smartWalletPubkey
    /\ ~timer.mounted => PendingChecks(timer) = {}
    /\ Cardinality(PendingChecks(timer)) <= 1
    /\ last.op = "check" =>
          /\ last.connected = isConnected
          /\ last.pubkey = smartWalletPubkey

\* After the wallet connected as A1 the check set by that render ran, wrote
\* the record for the current time, and no other check is pending.
C26_Witness ==
    /\ last.op = "check"
    /\ last.connected /\ last.pubkey = "A1"
    /\ isConnected /\ smartWalletPubkey = "A1"
    /\ PendingChecks(timer) = {}
    /\ storage \in {[k |-> "dec", ms |-> now, pk |-> "null"],
                     [k |-> "session", ms |-> now, pk |-> "A1"]}

====
